---------------------------- MODULE Spec2Model ----------------------------
(***************************************************************************)
(* Layer 2 of the two-layer injury extraction pipeline: the deterministic  *)
(* evaluator evaluateEvidence(evidence, config) of lib/rnd/evaluator.ts    *)
(* and the evidence schema of lib/rnd/schema.ts it reads.                  *)
(*                                                                         *)
(* A JavaScript string is a sequence of one-character strings, so that     *)
(* length, toLowerCase, trim and indexOf are computed and not assumed.     *)
(* null is the label Null (injury_candidate) or the sequence NullStr       *)
(* (body_site, negation_text); neither is a string the pools contain.      *)
(***************************************************************************)
EXTENDS Integers, Sequences, FiniteSets

VARIABLES evidence, evaluatorConfig, config, result, resultArray, prevResult,
          calls, pc, locals, results, pipelineResult,
          request, currentData, blockResults, response,
          noteContent, options, segments

vars == <<evidence, evaluatorConfig, config, result, resultArray, prevResult,
          calls, pc, locals, results, pipelineResult,
          request, currentData, blockResults, response,
          noteContent, options, segments>>

(* The invocations in flight: where each caller's invocation is, the       *)
(* validMentions of each invocation, and the list each caller was returned *)
invocations == <<pc, locals, results>>

(* The unified pipeline route: the body of the request, the data passed   *)
(* from block to block, the results array, and the response               *)
unified == <<request, currentData, blockResults, response>>

(* recognizeSections: its two arguments and the array it returned *)
sections == <<noteContent, options, segments>>

-----------------------------------------------------------------------------
(* Bounds of the model *)

MaxMentions == 2

MaxOrderMentions == 3

MaxStatements == 2

MaxCalls == 2

NumCallers == 2

MaxBlocks == 3

MaxLines == 2

-----------------------------------------------------------------------------
(* schema.ts *)

Null == "<null>"

NullStr == <<"<null>">>

ALLOWED_INJURIES ==
  { "abrasion", "bleeding", "broken skin", "bruising", "bruise", "burn",
    "cut", "contusion", "dislocation", "fracture", "frostbite", "hematoma",
    "hypoglycemia", "incision", "laceration", "pain", "redness", "scratches",
    "skin tear", "scrape", "sprain", "strain", "swelling", "unconscious" }

TemporalRelation == {"post_fall", "during_fall", "pre_fall", "unknown"}

Certainty == {"explicit", "implied", "unclear"}

(* The labels in the order of String.prototype.localeCompare: the 24 allowed *)
(* labels and "shaking", a label outside the vocabulary.                     *)
Alphabetical ==
  << "abrasion", "bleeding", "broken skin", "bruise", "bruising", "burn",
     "contusion", "cut", "dislocation", "fracture", "frostbite", "hematoma",
     "hypoglycemia", "incision", "laceration", "pain", "redness", "scrape",
     "scratches", "shaking", "skin tear", "sprain", "strain", "swelling",
     "unconscious" >>

-----------------------------------------------------------------------------
(* JavaScript strings and arrays *)

Min(S) == CHOOSE x \in S : \A y \in S : x <= y

Sign(n) == IF n < 0 THEN -1 ELSE IF n > 0 THEN 1 ELSE 0

LowerChar(ch) ==
  CASE ch = "A" -> "a"
    [] ch = "B" -> "b"
    [] OTHER -> ch

toLowerCase(s) == [i \in 1..Len(s) |-> LowerChar(s[i])]

RECURSIVE trimStart(_)
trimStart(s) ==
  IF s # <<>> /\ Head(s) = " " THEN trimStart(Tail(s)) ELSE s

RECURSIVE trimEnd(_)
trimEnd(s) ==
  IF s # <<>> /\ s[Len(s)] = " " THEN trimEnd(SubSeq(s, 1, Len(s) - 1)) ELSE s

trim(s) == trimEnd(trimStart(s))

(* s.indexOf(t): the 0-based position of the first occurrence, or -1 *)
indexOf(s, t) ==
  LET hits == { i \in 1..(Len(s) - Len(t) + 1) : SubSeq(s, i, i + Len(t) - 1) = t }
  IN  IF hits = {} THEN -1 ELSE Min(hits) - 1

Rank(label) == CHOOSE i \in 1..Len(Alphabetical) : Alphabetical[i] = label

localeCompare(a, b) == Sign(Rank(a) - Rank(b))

(* arr.find(P): the first of the indices whose element satisfies P (0: undefined) *)
firstIndex(hits) == IF hits = {} THEN 0 ELSE Min(hits)

SeqsUpTo(S, n) == UNION { [1..k -> S] : k \in 0..n }

Range(s) == { s[i] : i \in 1..Len(s) }

-----------------------------------------------------------------------------
(* evaluator.ts *)

Configs ==
  [ excludeNegated : BOOLEAN, respectNoInjuryStatements : BOOLEAN,
    preferExplicit : BOOLEAN, strictPainEvaluation : BOOLEAN,
    requireExactMatch : BOOLEAN ]

ALL_FALSE_CONFIG ==
  [ excludeNegated |-> FALSE, respectNoInjuryStatements |-> FALSE,
    preferExplicit |-> FALSE, strictPainEvaluation |-> FALSE,
    requireExactMatch |-> FALSE ]

DEFAULT_CONFIG ==
  [ excludeNegated |-> TRUE, respectNoInjuryStatements |-> TRUE,
    preferExplicit |-> TRUE, strictPainEvaluation |-> TRUE,
    requireExactMatch |-> TRUE ]

(* The configuration a caller may leave out: undefined, or, for runPipeline, *)
(* an object with some of the flags (Partial<EvaluatorConfig>)              *)
Flags ==
  { "excludeNegated", "respectNoInjuryStatements", "preferExplicit",
    "strictPainEvaluation", "requireExactMatch" }

Undefined == [undefined |-> TRUE]

PartialConfigs == UNION { [present -> BOOLEAN] : present \in SUBSET Flags }

(* config: EvaluatorConfig = DEFAULT_CONFIG *)
defaultParameter(argument) ==
  IF argument = Undefined THEN DEFAULT_CONFIG ELSE argument

(* config.evaluatorConfig || {} *)
orEmptyObject(argument) ==
  IF argument = Undefined THEN [flag \in {} |-> TRUE] ELSE argument

(* { ...target, ...source } *)
spread(target, source) ==
  [ flag \in DOMAIN target \cup DOMAIN source |->
      IF flag \in DOMAIN source THEN source[flag] ELSE target[flag] ]

(* Rule 1 *)
Rule1(mentions) ==
  SelectSeq(mentions, LAMBDA m : m.injury_candidate # Null)

(* Rule 2 *)
Rule2Ignored(validMentions, c) == validMentions

Rule2ByNegationText(validMentions, c) ==
  IF c.excludeNegated
  THEN SelectSeq(validMentions, LAMBDA m : m.negation_text = NullStr)
  ELSE validMentions

Rule2(validMentions, c) ==
  IF c.excludeNegated
  THEN SelectSeq(validMentions, LAMBDA m : ~m.is_negated)
  ELSE validMentions

(* Rule 3: reduce without an initial value starts from the first statement *)
RECURSIVE reduceLatest(_, _)
reduceLatest(latest, rest) ==
  IF rest = <<>> THEN latest
  ELSE reduceLatest(IF Head(rest).end_char > latest.end_char THEN Head(rest) ELSE latest,
                    Tail(rest))

lastStatementInArray(statements) == statements[Len(statements)]

lastNoInjuryStatement(statements) == reduceLatest(Head(statements), Tail(statements))

injuriesAfterNone(validMentions, last) == <<>>

injuriesAfterByOffsetOnly(validMentions, last) ==
  SelectSeq(validMentions, LAMBDA m : m.start_char > last.end_char)

allMentionsWhenLifted(validMentions, last) ==
  IF \E i \in 1..Len(validMentions) :
       /\ validMentions[i].start_char > last.end_char
       /\ validMentions[i].certainty = "explicit"
       /\ ~validMentions[i].is_negated
  THEN validMentions
  ELSE <<>>

injuriesAfter(validMentions, last) ==
  SelectSeq(validMentions,
            LAMBDA m : /\ m.start_char > last.end_char
                       /\ m.certainty = "explicit"
                       /\ ~m.is_negated)

Rule3AppliesUnguarded(e, c) == c.respectNoInjuryStatements

Rule3AppliesWhateverTheFlag(e, c) == Len(e.no_injury_statements) > 0

Rule3Applies(e, c) ==
  c.respectNoInjuryStatements /\ Len(e.no_injury_statements) > 0

(* Rule 4 *)
Rule4KeepsWeaker(validMentions, c) == validMentions

Rule4(validMentions, c) ==
  LET explicitMentions == SelectSeq(validMentions, LAMBDA m : m.certainty = "explicit")
  IN  IF c.preferExplicit /\ Len(explicitMentions) > 0
      THEN explicitMentions
      ELSE validMentions

(* Rule 5 *)
PainAcceptedAnyCertainty(mention) ==
  \/ mention.body_site # NullStr /\ trim(mention.body_site) # <<>>
  \/ mention.temporal_relation_to_fall \in {"post_fall", "during_fall"}

PainAccepted(mention) ==
  LET hasBodySite == mention.body_site # NullStr /\ trim(mention.body_site) # <<>>
      isPostFall  == \/ mention.temporal_relation_to_fall = "post_fall"
                     \/ mention.temporal_relation_to_fall = "during_fall"
      isExplicit  == mention.certainty = "explicit"
  IN  hasBodySite \/ (isPostFall /\ isExplicit)

Rule5AllLabels(validMentions, c) ==
  IF c.strictPainEvaluation
  THEN SelectSeq(validMentions, PainAccepted)
  ELSE validMentions

Rule5(validMentions, c) ==
  IF c.strictPainEvaluation
  THEN SelectSeq(validMentions,
                 LAMBDA m : IF m.injury_candidate = "pain" THEN PainAccepted(m) ELSE TRUE)
  ELSE validMentions

(* Rules 1-5 with the pain rule ahead of the certainty preference *)
SurvivorsPainFirst(e, c) ==
  LET v2    == Rule2(Rule1(e.injury_mentions), c)
      after == injuriesAfter(v2, lastNoInjuryStatement(e.no_injury_statements))
  IN  IF Rule3Applies(e, c)
      THEN IF Len(after) = 0
           THEN [returned |-> TRUE, validMentions |-> <<>>]
           ELSE [returned |-> FALSE, validMentions |-> Rule4(Rule5(after, c), c)]
      ELSE [returned |-> FALSE, validMentions |-> Rule4(Rule5(v2, c), c)]

(* Rules 1-5: returned is the early return of Rule 3 *)
Survivors(e, c) ==
  LET v2    == Rule2(Rule1(e.injury_mentions), c)
      after == injuriesAfter(v2, lastNoInjuryStatement(e.no_injury_statements))
  IN  IF Rule3Applies(e, c)
      THEN IF Len(after) = 0
           THEN [returned |-> TRUE, validMentions |-> <<>>]
           ELSE [returned |-> FALSE, validMentions |-> Rule5(Rule4(after, c), c)]
      ELSE [returned |-> FALSE, validMentions |-> Rule5(Rule4(v2, c), c)]

(* normalizePhrase: lowercase, trim, runs of whitespace to one space *)
RECURSIVE collapseSpaces(_)
collapseSpaces(s) ==
  IF Len(s) < 2 THEN s
  ELSE IF s[1] = " " /\ s[2] = " " THEN collapseSpaces(Tail(s))
  ELSE <<s[1]>> \o collapseSpaces(Tail(s))

normalizePhrase(phrase) == collapseSpaces(trim(toLowerCase(phrase)))

(* Rule 6: the condition under which a later mention replaces the entry *)
ShouldReplace(mention, existing) ==
  \/ Len(mention.text) > Len(existing.phrase)
  \/ /\ mention.body_site # NullStr
     /\ indexOf(toLowerCase(existing.phrase), toLowerCase(mention.body_site)) = -1

(* injuryMap.get(key): a Map keeps its keys in insertion order, and set on a *)
(* present key keeps its place; 0 is undefined.                              *)
mapIndexByLabelAndPhrase(map, mention) ==
  firstIndex({ i \in 1..Len(map) :
                 /\ map[i].matched_injury = mention.injury_candidate
                 /\ normalizePhrase(map[i].phrase) = normalizePhrase(mention.text) })

mapIndex(map, mention) ==
  firstIndex({ i \in 1..Len(map) : map[i].matched_injury = mention.injury_candidate })

(* The entry set for a mention; rep is the index in validMentions of the *)
(* mention it was copied from, which the code does not store.            *)
newEntryNormalized(mention, n) ==
  [phrase |-> normalizePhrase(mention.text), matched_injury |-> mention.injury_candidate, rep |-> n]

newEntry(mention, n) ==
  [phrase |-> mention.text, matched_injury |-> mention.injury_candidate, rep |-> n]

RECURSIVE injuryMap(_, _)
injuryMap(validMentions, n) ==
  IF n = 0 THEN <<>>
  ELSE LET map     == injuryMap(validMentions, n - 1)
           mention == validMentions[n]
           at      == mapIndex(map, mention)
       IN  IF at = 0 THEN Append(map, newEntry(mention, n))
           ELSE IF ShouldReplace(mention, map[at])
                THEN [map EXCEPT ![at] = newEntry(mention, n)]
                ELSE map

FinalInjury(entry) == [phrase |-> entry.phrase, matched_injury |-> entry.matched_injury]

(* Array.from(injuryMap.values()) *)
mapValues(validMentions) ==
  LET map == injuryMap(validMentions, Len(validMentions))
  IN  [i \in 1..Len(map) |-> FinalInjury(map[i])]

(* Rule 7: the comparator handed to sort *)
findMention(validMentions, a) ==
  firstIndex({ i \in 1..Len(validMentions) :
                 /\ validMentions[i].injury_candidate = a.matched_injury
                 /\ validMentions[i].text = a.phrase })

compareFnNeverZero(a, b, validMentions) ==
  LET mentionA == findMention(validMentions, a)
      mentionB == findMention(validMentions, b)
  IN  IF validMentions[mentionA].start_char < validMentions[mentionB].start_char
      THEN -1 ELSE 1

compareFn(a, b, validMentions) ==
  LET mentionA == findMention(validMentions, a)
      mentionB == findMention(validMentions, b)
  IN  IF /\ mentionA # 0 /\ mentionB # 0
         /\ validMentions[mentionA].start_char # validMentions[mentionB].start_char
      THEN validMentions[mentionA].start_char - validMentions[mentionB].start_char
      ELSE localeCompare(a.matched_injury, b.matched_injury)

(* Array.prototype.sort: a consistent comparator makes the sort stable and its *)
(* result unique; with any other comparator the order is implementation-defined. *)
IsConsistent(arr, validMentions) ==
  LET n   == Len(arr)
      cmp == [i \in 1..n |-> [j \in 1..n |-> Sign(compareFn(arr[i], arr[j], validMentions))]]
  IN  /\ \A i \in 1..n : cmp[i][i] = 0
      /\ \A i, j \in 1..n : cmp[i][j] = -cmp[j][i]
      /\ \A i, j, k \in 1..n : cmp[i][j] <= 0 /\ cmp[j][k] <= 0 => cmp[i][k] <= 0

RECURSIVE insertSorted(_, _, _)
insertSorted(sorted, x, validMentions) ==
  IF sorted = <<>> THEN <<x>>
  ELSE IF compareFn(sorted[Len(sorted)], x, validMentions) <= 0
       THEN Append(sorted, x)
       ELSE Append(insertSorted(SubSeq(sorted, 1, Len(sorted) - 1), x, validMentions),
                   sorted[Len(sorted)])

RECURSIVE stableSort(_, _, _)
stableSort(arr, n, validMentions) ==
  IF n = 0 THEN <<>>
  ELSE insertSorted(stableSort(arr, n - 1, validMentions), arr[n], validMentions)

Reorderings(arr) ==
  { [i \in 1..Len(arr) |-> arr[p[i]]] :
      p \in { q \in [1..Len(arr) -> 1..Len(arr)] :
                \A i, j \in 1..Len(arr) : q[i] = q[j] => i = j } }

sortOutcomes(arr, validMentions) ==
  IF IsConsistent(arr, validMentions)
  THEN { stableSort(arr, Len(arr), validMentions) }
  ELSE Reorderings(arr)

(* The places where a call can throw a TypeError: reduce with no initial  *)
(* value on an empty array (Rule 3), a method called on a null body_site  *)
(* (Rules 5 and 6), localeCompare called on a null label (Rule 7).        *)
reduceThrows(statements) == Len(statements) = 0

Rule3Throws(e, c) == Rule3Applies(e, c) /\ reduceThrows(e.no_injury_statements)

(* mention.body_site !== null && ... : the right operand is evaluated only *)
(* when the left one holds                                                 *)
readsBodySite(mention) == mention.body_site # NullStr

methodOnNullBodySite(mention) ==
  readsBodySite(mention) /\ mention.body_site = NullStr

(* validMentions as Rule 4 and as Rule 5 receive it *)
enteringRule4(e, c) ==
  LET v2 == Rule2(Rule1(e.injury_mentions), c)
  IN  IF Rule3Applies(e, c)
      THEN injuriesAfter(v2, lastNoInjuryStatement(e.no_injury_statements))
      ELSE v2

enteringRule5(e, c) == Rule4(enteringRule4(e, c), c)

Rule5Throws(validMentions, c) ==
  /\ c.strictPainEvaluation
  /\ \E i \in 1..Len(validMentions) :
       /\ validMentions[i].injury_candidate = "pain"
       /\ methodOnNullBodySite(validMentions[i])

(* the body_site of a mention is read when an entry of its label exists and *)
(* its text is not longer than the entry's phrase                          *)
Rule6Throws(validMentions) ==
  \E n \in 1..Len(validMentions) :
    LET map == injuryMap(validMentions, n - 1)
        at  == mapIndex(map, validMentions[n])
    IN  /\ at # 0
        /\ ~(Len(validMentions[n].text) > Len(map[at].phrase))
        /\ methodOnNullBodySite(validMentions[n])

Rule7Throws(validMentions) ==
  /\ Len(mapValues(validMentions)) >= 2
  /\ \E i \in 1..Len(validMentions) : validMentions[i].injury_candidate = Null

(* evidence.injury_mentions.filter on an object that has no such array *)
readsUndefined(e) == "injury_mentions" \notin DOMAIN e

Thrown(e, c) ==
  \/ readsUndefined(e)
  \/ Rule3Throws(e, c)
  \/ /\ ~Survivors(e, c).returned
     /\ \/ Rule5Throws(enteringRule5(e, c), c)
        \/ Rule6Throws(Survivors(e, c).validMentions)
        \/ Rule7Throws(Survivors(e, c).validMentions)

(* The lists a call may return; a call that throws returns none, and the *)
(* caller's list stays the empty one it started with                     *)
evaluateEvidence(e, c) ==
  IF Thrown(e, c) THEN { <<>> }
  ELSE LET s == Survivors(e, c)
       IN  IF s.returned THEN { <<>> }
           ELSE sortOutcomes(mapValues(s.validMentions), s.validMentions)

(* The array object a call returns: the literal [] of Rule 3's early return, *)
(* or finalInjuries; the arrays of the evidence are named by their fields.   *)
(* "TypeError" is a call that threw and returned no array.                   *)
EvidenceArrays ==
  { "injury_mentions", "negations", "no_injury_statements", "timing_markers",
    "body_sites", "extraction_warnings" }

returnedArray(e, c) ==
  IF Thrown(e, c) THEN "TypeError"
  ELSE IF Survivors(e, c).returned THEN "literal" ELSE "finalInjuries"

(* What the call leaves of its arguments: filter, reduce, find and Array.from *)
(* do not write their receiver, and sort writes finalInjuries, the array      *)
(* Array.from made.                                                           *)
RECURSIVE insertByStart(_, _)
insertByStart(sorted, m) ==
  IF sorted = <<>> THEN <<m>>
  ELSE IF sorted[Len(sorted)].start_char <= m.start_char THEN Append(sorted, m)
  ELSE Append(insertByStart(SubSeq(sorted, 1, Len(sorted) - 1), m), sorted[Len(sorted)])

RECURSIVE sortByStart(_, _)
sortByStart(arr, n) ==
  IF n = 0 THEN <<>> ELSE insertByStart(sortByStart(arr, n - 1), arr[n])

evidenceAfterSortingMentions(e, c) ==
  [e EXCEPT !.injury_mentions = sortByStart(e.injury_mentions, Len(e.injury_mentions))]

evidenceAfter(e, c) == e

configAfter(e, c) == c

-----------------------------------------------------------------------------
(* The evidence and the configuration a caller passes in *)

Mentions(texts, labels, sites, negated, relations, certainties, starts) ==
  [ text : texts, injury_candidate : labels, body_site : sites,
    is_negated : negated, negation_text : {NullStr},
    temporal_relation_to_fall : relations, certainty : certainties,
    start_char : starts, end_char : {4} ]

Statements(ends) ==
  [ text : {<<"n">>}, start_char : {0}, end_char : ends ]

Metadata == [ model_version |-> <<"t">>, extraction_warnings |-> <<>> ]

Evidence(mentions, statements) ==
  [ injury_mentions |-> mentions, negations |-> <<>>,
    no_injury_statements |-> statements, timing_markers |-> <<>>,
    body_sites |-> <<>>, metadata |-> Metadata ]

(* pipeline.ts: the promise runPipeline returns and the PipelineResult it   *)
(* is fulfilled with; null is NullEvidence for layer1Evidence and Null for *)
(* rawLayer1Response and error                                             *)
NullEvidence == [null |-> TRUE]

Pending ==
  [ promise |-> "pending", finalInjuries |-> <<>>, layer1Evidence |-> NullEvidence,
    rawLayer1Response |-> Null, error |-> Null ]

(* An object JSON.parse returns that is not of the shape of Layer1Evidence *)
Misshapen == [ metadata |-> Metadata ]

Callers == 1..NumCallers

NoInvocations ==
  /\ pc = [caller \in Callers |-> "idle"]
  /\ locals = [caller \in Callers |-> <<>>]
  /\ results = [caller \in Callers |-> <<>>]

(* The unified pipeline route before a request arrives: no body, no data, *)
(* no result and no response (status 0); null is NullOutput for an output *)
NullOutput == [null |-> TRUE]

NoBody == [ received |-> FALSE, blocks |-> <<>>, inputNote |-> "" ]

NotSent == [ status |-> 0 ]

NoRequest ==
  /\ request = NoBody
  /\ currentData = NullOutput
  /\ blockResults = <<>>
  /\ response = NotSent

(* recognizeSections before it is called *)
NoNote ==
  /\ noteContent = <<>>
  /\ options = [ filterLessRelevant |-> TRUE, mergeAdjacent |-> TRUE,
                  minSegmentLength |-> 10 ]
  /\ segments = <<>>

InitFrom(mentionPool, maxMentions, statementPool, maxStatements) ==
  /\ \E ms \in SeqsUpTo(mentionPool, maxMentions) :
       \E ss \in SeqsUpTo(statementPool, maxStatements) :
         evidence = Evidence(ms, ss)
  /\ config \in Configs
  /\ evaluatorConfig = config
  /\ result = <<>>
  /\ resultArray = "none"
  /\ prevResult = <<>>
  /\ calls = 0
  /\ NoInvocations
  /\ pipelineResult = Pending
  /\ NoRequest
  /\ NoNote

(* Admissibility and negation: text, label, negation and certainty vary *)
AdmitPool ==
  Mentions({<<"a">>, <<"b">>}, {Null, "shaking", "bruise"}, {NullStr},
           BOOLEAN, {"post_fall"}, {"explicit", "implied"}, {0})

(* Suppression: negation, certainty and offsets vary, against one or more *)
(* no-injury statements                                                   *)
SuppressPool ==
  Mentions({<<"a">>}, {"bruise"}, {NullStr},
           BOOLEAN, {"post_fall"}, {"explicit", "implied"}, {1, 2})

(* Deduplication: text, label and body site vary *)
DedupPool ==
  Mentions({<<"a">>, <<"b">>, <<"A", "b">>, <<"b", "b">>}, {"bruise", "cut"},
           {NullStr, <<"a">>, <<" ">>},
           {FALSE}, {"post_fall"}, {"explicit"}, {0})

(* Ordering: label, body site and offset vary *)
OrderPool ==
  Mentions({<<"a">>}, {"bruise", "cut"}, {NullStr, <<"b">>},
           {FALSE}, {"post_fall"}, {"explicit"}, {0, 1, 2})

(* Repeated calls: label and offset vary *)
RepeatPool ==
  Mentions({<<"a">>}, {"shaking", "bruise", "cut"}, {NullStr},
           {FALSE}, {"post_fall"}, {"explicit"}, {0, 1})

(* Defaults: negation and certainty of a pain mention vary *)
DefaultPool ==
  Mentions({<<"a">>}, {"pain"}, {NullStr},
           BOOLEAN, {"post_fall"}, {"explicit", "implied"}, {1})

(* Pain: body site, relation to the fall and certainty of a pain mention vary *)
PainPool ==
  Mentions({<<"a">>}, {"pain"}, {NullStr, <<>>, <<" ">>, <<"a">>},
           {FALSE}, {"post_fall", "during_fall", "unknown"},
           {"explicit", "implied"}, {0})

(* Certainty: text, label, negation and certainty vary *)
CertaintyPool ==
  Mentions({<<"a">>, <<"b">>}, {"bruise", "pain"}, {NullStr},
           BOOLEAN, {"unknown"}, {"explicit", "implied", "unclear"}, {0})

(* Lifting a suppression: label, certainty and offset vary, against one or *)
(* more no-injury statements                                              *)
LiftPool ==
  Mentions({<<"a">>}, {"bruise", "pain"}, {NullStr},
           {FALSE}, {"unknown"}, {"explicit", "implied"}, {1, 2})

(* Toggling the pain rule: pain mentions with and without a body site among *)
(* mentions of two other labels, at two offsets                            *)
TogglePool ==
  Mentions({<<"a">>}, {"pain"}, {NullStr, <<"b">>},
           {FALSE}, {"unknown"}, {"explicit"}, {0, 1})
  \cup
  Mentions({<<"a">>}, {"bruise", "cut"}, {NullStr},
           {FALSE}, {"unknown"}, {"explicit"}, {0, 1})

(* Informational fields: negation_text and end_char of a mention, text and *)
(* start_char of a no-injury statement, and the arrays and the metadata    *)
(* the evaluator is handed with them                                       *)
InformationalMentions ==
  [ text : {<<"a">>}, injury_candidate : {"bruise"}, body_site : {NullStr},
    is_negated : BOOLEAN, negation_text : {NullStr, <<"n">>},
    temporal_relation_to_fall : {"post_fall"}, certainty : {"explicit"},
    start_char : {2}, end_char : {4, 5} ]

InformationalStatements ==
  { [ text |-> <<"n">>, start_char |-> 0, end_char |-> 1 ],
    [ text |-> <<"m">>, start_char |-> 1, end_char |-> 1 ] }

InformationalRest ==
  { [ negations |-> <<>>, timing_markers |-> <<>>, body_sites |-> <<>>,
      metadata |-> Metadata ],
    [ negations |-> << [ text |-> <<"n">>, scope_hint |-> NullStr,
                         start_char |-> 0, end_char |-> 1 ] >>,
      timing_markers |-> << [ text |-> <<"p">>, start_char |-> 0, end_char |-> 1 ] >>,
      body_sites |-> << [ text |-> <<"b">>, start_char |-> 0, end_char |-> 1 ] >>,
      metadata |-> [ model_version |-> <<"u">>,
                     extraction_warnings |-> << <<"w">> >> ] ] }

(* Several callers: a negated explicit mention and an implied one *)
SharedPool ==
  Mentions({<<"a">>}, {"bruise"}, {NullStr},
           {TRUE}, {"post_fall"}, {"explicit"}, {2})
  \cup
  Mentions({<<"b">>}, {"cut"}, {NullStr},
           {FALSE}, {"post_fall"}, {"implied", "explicit"}, {2})

Init == InitFrom(AdmitPool, MaxMentions, {}, 0)

InitSuppress == InitFrom(SuppressPool, MaxMentions, Statements({0, 1}), MaxStatements)

InitDedup == InitFrom(DedupPool, MaxMentions, {}, 0)

InitOrder == InitFrom(OrderPool, MaxOrderMentions, {}, 0)

InitRepeat == InitFrom(RepeatPool, MaxMentions, {}, 0)

InitPain == InitFrom(PainPool, MaxMentions, {}, 0)

InitCertainty == InitFrom(CertaintyPool, MaxMentions, {}, 0)

InitToggle == InitFrom(TogglePool, MaxOrderMentions, {}, 0)

InitShared == InitFrom(SharedPool, MaxMentions, Statements({1}), MaxStatements)

InitLift == InitFrom(LiftPool, MaxMentions, Statements({0, 1}), MaxStatements)

(* The caller has an optional configuration; the parameter of the evaluator *)
(* is not bound before the call                                             *)
InitDefault ==
  /\ \/ \E ms \in SeqsUpTo(DefaultPool, MaxMentions) :
          \E ss \in SeqsUpTo(Statements({0}), MaxStatements) :
            evidence = Evidence(ms, ss)
     \/ evidence = Misshapen
  /\ evaluatorConfig \in PartialConfigs \cup {Undefined}
  /\ config = Undefined
  /\ result = <<>>
  /\ resultArray = "none"
  /\ prevResult = <<>>
  /\ calls = 0
  /\ NoInvocations
  /\ pipelineResult = Pending
  /\ NoRequest
  /\ NoNote

InitInformational ==
  /\ \E ms \in SeqsUpTo(InformationalMentions, MaxMentions) :
       \E ss \in SeqsUpTo(InformationalStatements, MaxStatements) :
         \E rest \in InformationalRest :
           evidence = [ injury_mentions |-> ms, negations |-> rest.negations,
                        no_injury_statements |-> ss,
                        timing_markers |-> rest.timing_markers,
                        body_sites |-> rest.body_sites,
                        metadata |-> rest.metadata ]
  /\ config \in Configs
  /\ evaluatorConfig = config
  /\ result = <<>>
  /\ resultArray = "none"
  /\ prevResult = <<>>
  /\ calls = 0
  /\ NoInvocations
  /\ pipelineResult = Pending
  /\ NoRequest
  /\ NoNote

(* The unified route: what the Layer 1 response of an extraction block    *)
(* parses to is one mention or none, or an object of another shape        *)
UnifiedPool ==
  Mentions({<<"a">>}, {"bruise", "pain"}, {NullStr},
           {FALSE}, {"post_fall"}, {"explicit"}, {0})

InitUnified ==
  /\ \/ \E ms \in SeqsUpTo(UnifiedPool, 1) : evidence = Evidence(ms, <<>>)
     \/ evidence = Misshapen
  /\ evaluatorConfig = Undefined
  /\ config = Undefined
  /\ result = <<>>
  /\ resultArray = "none"
  /\ prevResult = <<>>
  /\ calls = 0
  /\ NoInvocations
  /\ pipelineResult = Pending
  /\ NoRequest
  /\ NoNote

-----------------------------------------------------------------------------
(* The calls *)

Evaluate ==
  /\ calls = 0
  /\ \E out \in evaluateEvidence(evidence, config) : result' = out
  /\ resultArray' = returnedArray(evidence, config)
  /\ evidence' = evidenceAfter(evidence, config)
  /\ config' = configAfter(evidence, config)
  /\ evaluatorConfig' = evaluatorConfig
  /\ prevResult' = prevResult
  /\ calls' = 1
  /\ UNCHANGED <<invocations, pipelineResult, unified, sections>>

(* The caller calls again with the same arguments *)
Reevaluate ==
  /\ calls >= 1
  /\ calls < MaxCalls
  /\ \E out \in evaluateEvidence(evidence, config) : result' = out
  /\ resultArray' = returnedArray(evidence, config)
  /\ evidence' = evidenceAfter(evidence, config)
  /\ config' = configAfter(evidence, config)
  /\ evaluatorConfig' = evaluatorConfig
  /\ prevResult' = result
  /\ calls' = calls + 1
  /\ UNCHANGED <<invocations, pipelineResult, unified, sections>>

(* Several callers invoke evaluateEvidence on the one evidence and the one *)
(* config. validMentions, injuryMap and finalInjuries are locals of the    *)
(* invocation: each invocation has a frame of its own.                     *)
sharedFrame(caller) == Min(Callers)

frame(caller) == caller

(* Rules 1 and 2 *)
EnterEvaluate(caller) ==
  /\ pc[caller] = "idle"
  /\ locals' = [locals EXCEPT ![frame(caller)] = Rule2(Rule1(evidence.injury_mentions), config)]
  /\ pc' = [pc EXCEPT ![caller] = "rule3"]
  /\ results' = results
  /\ evidence' = evidenceAfter(evidence, config)
  /\ config' = configAfter(evidence, config)
  /\ UNCHANGED <<evaluatorConfig, result, resultArray, prevResult, calls,
               pipelineResult, unified, sections>>

(* Rule 3 *)
StepRule3(caller) ==
  /\ pc[caller] = "rule3"
  /\ IF Rule3Applies(evidence, config)
     THEN LET after == injuriesAfter(locals[frame(caller)],
                                     lastNoInjuryStatement(evidence.no_injury_statements))
          IN  IF Len(after) = 0
              THEN /\ results' = [results EXCEPT ![caller] = <<>>]
                   /\ pc' = [pc EXCEPT ![caller] = "done"]
                   /\ locals' = locals
              ELSE /\ locals' = [locals EXCEPT ![frame(caller)] = after]
                   /\ pc' = [pc EXCEPT ![caller] = "rule4"]
                   /\ results' = results
     ELSE /\ pc' = [pc EXCEPT ![caller] = "rule4"]
          /\ UNCHANGED <<locals, results>>
  /\ evidence' = evidenceAfter(evidence, config)
  /\ config' = configAfter(evidence, config)
  /\ UNCHANGED <<evaluatorConfig, result, resultArray, prevResult, calls,
               pipelineResult, unified, sections>>

(* Rules 4 and 5 *)
StepRule4And5(caller) ==
  /\ pc[caller] = "rule4"
  /\ locals' = [locals EXCEPT ![frame(caller)] = Rule5(Rule4(@, config), config)]
  /\ pc' = [pc EXCEPT ![caller] = "rule6"]
  /\ results' = results
  /\ evidence' = evidenceAfter(evidence, config)
  /\ config' = configAfter(evidence, config)
  /\ UNCHANGED <<evaluatorConfig, result, resultArray, prevResult, calls,
               pipelineResult, unified, sections>>

(* Rules 6 and 7, and the return *)
StepRule6And7(caller) ==
  /\ pc[caller] = "rule6"
  /\ \E out \in sortOutcomes(mapValues(locals[frame(caller)]), locals[frame(caller)]) :
       results' = [results EXCEPT ![caller] = out]
  /\ pc' = [pc EXCEPT ![caller] = "done"]
  /\ locals' = locals
  /\ evidence' = evidenceAfter(evidence, config)
  /\ config' = configAfter(evidence, config)
  /\ UNCHANGED <<evaluatorConfig, result, resultArray, prevResult, calls,
               pipelineResult, unified, sections>>

(* evaluateEvidence(evidence): the configuration is left out *)
EvaluateOmitted ==
  /\ calls = 0
  /\ evaluatorConfig = Undefined
  /\ config' = defaultParameter(evaluatorConfig)
  /\ \E out \in evaluateEvidence(evidence, config') : result' = out
  /\ resultArray' = returnedArray(evidence, config')
  /\ evidence' = evidenceAfter(evidence, config')
  /\ evaluatorConfig' = evaluatorConfig
  /\ prevResult' = prevResult
  /\ calls' = 1
  /\ UNCHANGED <<invocations, pipelineResult, unified, sections>>

(* runPipeline. The API key is the empty string when none is provided; the  *)
(* provider call throws an Error or returns the Layer 1 response, which     *)
(* holds no JSON object, one JSON.parse rejects, or the JSON text of the    *)
(* evidence.                                                               *)
ApiKeys == {"", "key"}

ErrorMessages == {"", "overloaded"}

ProviderOutcomes ==
  [ thrown : {TRUE}, message : ErrorMessages, response : {""} ]
  \cup
  [ thrown : {FALSE}, message : {""}, response : {"no JSON", "bad JSON", "JSON"} ]

failure(raw, message) ==
  [ promise |-> "fulfilled", finalInjuries |-> <<>>, layer1Evidence |-> NullEvidence,
    rawLayer1Response |-> raw, error |-> message ]

uncaught(message) ==
  [ promise |-> "rejected", finalInjuries |-> <<>>, layer1Evidence |-> NullEvidence,
    rawLayer1Response |-> Null, error |-> Null ]

(* catch (error) of the function: error.message || 'Unknown error' *)
outerCatch(message) ==
  failure(Null, IF message = "" THEN "Unknown error" ELSE message)

(* catch (parseError) of the parsing *)
innerCatch(raw, message) ==
  failure(raw, IF message = "no JSON"
               THEN "Failed to parse Layer 1 response: No JSON object found in Layer 1 response"
               ELSE "Failed to parse Layer 1 response: Unexpected token")

success(finalInjuries, layer1Evidence, raw) ==
  [ promise |-> "fulfilled", finalInjuries |-> finalInjuries,
    layer1Evidence |-> layer1Evidence, rawLayer1Response |-> raw, error |-> Null ]

RunPipeline ==
  /\ calls = 0
  /\ pipelineResult.promise = "pending"
  /\ \E apiKey \in ApiKeys, provider \in ProviderOutcomes :
       LET merged == spread(DEFAULT_CONFIG, orEmptyObject(evaluatorConfig))
       IN  IF apiKey = "" \/ provider.thrown \/ provider.response # "JSON"
           THEN /\ pipelineResult' =
                     IF apiKey = "" THEN outerCatch("Anthropic API key not provided")
                     ELSE IF provider.thrown THEN outerCatch(provider.message)
                     ELSE innerCatch(provider.response, provider.response)
                /\ UNCHANGED <<evidence, config, result, resultArray, calls>>
           ELSE /\ config' = merged
                /\ \E out \in evaluateEvidence(evidence, merged) :
                     /\ result' = out
                     /\ pipelineResult' =
                          IF Thrown(evidence, merged)
                          THEN outerCatch("Cannot read properties of undefined")
                          ELSE success(out, evidence, provider.response)
                /\ resultArray' = returnedArray(evidence, merged)
                /\ evidence' = evidenceAfter(evidence, merged)
                /\ calls' = 1
  /\ evaluatorConfig' = evaluatorConfig
  /\ prevResult' = prevResult
  /\ UNCHANGED <<invocations, unified, sections>>

(* The unified pipeline route (api/pipeline/execute). The body holds the   *)
(* blocks, each with its id and type, and inputNote; the block types of    *)
(* the model are 'input', 'llm_extraction', 'layer2_evaluator' and a type  *)
(* the switch does not know. The Layer 1 response of an extraction parses  *)
(* to the evidence of the state.                                           *)
BlockTypes == {"input", "llm_extraction", "layer2_evaluator", "unknown"}

InputNotes == {"", "note"}

blocksOf(types) == [ i \in 1..Len(types) |-> [ id |-> i, type |-> types[i] ] ]

Bodies ==
  { [ received |-> TRUE, blocks |-> blocksOf(types), inputNote |-> note ] :
      types \in SeqsUpTo(BlockTypes, MaxBlocks), note \in InputNotes }

(* return blockResult of the try block: no error property *)
returned(block, input, output) ==
  [ blockId |-> block.id, blockType |-> block.type, input |-> input,
    output |-> output ]

(* catch (error) of executeBlock: blockResult.error = error.message, and   *)
(* output is the null it was initialised with                              *)
caught(block, input, message) ==
  [ blockId |-> block.id, blockType |-> block.type, input |-> input,
    output |-> NullOutput, error |-> message ]

(* input.layer1Evidence: undefined (NullEvidence) where input has none *)
layer1EvidenceOf(input) ==
  IF "layer1Evidence" \in DOMAIN input THEN input.layer1Evidence ELSE NullEvidence

(* input.noteContent || input: every output of a block that is not null   *)
(* has a noteContent, which is the inputNote the route checked is truthy   *)
noteContentOrInput(input) == input.noteContent

(* if (result.error): undefined and the empty string are falsy *)
truthy(blockResult) == "error" \in DOMAIN blockResult /\ blockResult.error # ""

(* The results executeBlock may resolve to; input.noteContent and          *)
(* input.layer1Evidence throw a TypeError on a null input                  *)
executeBlock(block, input, provider, parsed) ==
  IF block.type = "unknown"
  THEN { caught(block, input, "Unknown block type: unknown") }
  ELSE IF input = NullOutput
  THEN { caught(block, input, "Cannot read properties of null") }
  ELSE IF block.type = "input"
  THEN { returned(block, input, [ noteContent |-> noteContentOrInput(input) ]) }
  ELSE IF block.type = "llm_extraction"
  THEN IF provider.thrown
       THEN { caught(block, input, provider.message) }
       ELSE IF provider.response = "bad JSON"
       THEN { caught(block, input, "Failed to parse Layer 1 response: SyntaxError") }
       ELSE { returned(block, input,
                [ layer1Evidence |-> IF provider.response = "JSON"
                                     THEN parsed ELSE NullEvidence,
                  rawResponse |-> provider.response,
                  noteContent |-> noteContentOrInput(input) ]) }
  ELSE IF layer1EvidenceOf(input) = NullEvidence
  THEN { caught(block, input, "Layer 2 Evaluator requires Layer 1 evidence") }
  ELSE IF Thrown(layer1EvidenceOf(input), defaultParameter(Undefined))
  THEN { caught(block, input, "Cannot read properties of undefined") }
  ELSE { returned(block, input,
           [ finalInjuries |-> out,
             layer1Evidence |-> layer1EvidenceOf(input),
             noteContent |-> noteContentOrInput(input) ]) :
           out \in evaluateEvidence(layer1EvidenceOf(input), defaultParameter(Undefined)) }

badRequest(message) == [ status |-> 400, error |-> message ]

ok(executed, finalOutput) ==
  [ status |-> 200, results |-> executed,
    summary |-> [ totalBlocks |-> Len(request.blocks),
                  executedBlocks |-> Len(executed),
                  finalOutput |-> finalOutput ] ]

(* POST up to the first await of executeBlock *)
POST ==
  /\ ~request.received
  /\ \E body \in Bodies :
       /\ request' = body
       /\ IF Len(body.blocks) = 0
          THEN /\ response' = badRequest("blocks array is required")
               /\ currentData' = currentData
          ELSE IF body.inputNote = ""
          THEN /\ response' = badRequest("inputNote is required")
               /\ currentData' = currentData
          ELSE /\ response' = response
               /\ currentData' = [ noteContent |-> body.inputNote ]
  /\ blockResults' = blockResults
  /\ UNCHANGED <<evidence, evaluatorConfig, config, result, resultArray, prevResult,
                 calls, invocations, pipelineResult, sections>>

(* One iteration of the loop, from the await of executeBlock to the next   *)
(* one, or to the response when the loop breaks or ends                    *)
ExecuteBlock ==
  /\ request.received
  /\ response.status = 0
  /\ Len(blockResults) < Len(request.blocks)
  /\ \E provider \in ProviderOutcomes :
       \E blockResult \in executeBlock(request.blocks[Len(blockResults) + 1],
                                       currentData, provider, evidence) :
         /\ blockResults' = Append(blockResults, blockResult)
         /\ IF truthy(blockResult)
            THEN /\ currentData' = currentData
                 /\ response' = ok(blockResults', currentData')
            ELSE /\ currentData' = blockResult.output
                 /\ response' = IF Len(blockResults') = Len(request.blocks)
                                THEN ok(blockResults', currentData')
                                ELSE response
  /\ request' = request
  /\ UNCHANGED <<evidence, evaluatorConfig, config, result, resultArray, prevResult,
                 calls, invocations, pipelineResult, sections>>

(* schema.ts: recognizeSections. The note is a string with "\n" between    *)
(* its lines; offsets count from 0.                                        *)
LF == "\n"

join(lines) ==
  IF lines = <<>> THEN <<>>
  ELSE LET joinFrom[i \in 1..Len(lines)] ==
             IF i = Len(lines) THEN lines[i]
             ELSE lines[i] \o <<LF>> \o joinFrom[i + 1]
       IN  joinFrom[1]

(* noteContent.split('\n'): one more line than there are newlines *)
RECURSIVE split(_)
split(s) ==
  LET newlines == { i \in 1..Len(s) : s[i] = LF }
  IN  IF newlines = {} THEN << s >>
      ELSE << SubSeq(s, 1, Min(newlines) - 1) >>
           \o split(SubSeq(s, Min(newlines) + 1, Len(s)))

Digits == {"0", "1", "2", "3", "4", "5", "6", "7", "8", "9"}

UpperCase ==
  {"A", "B", "C", "D", "E", "F", "G", "H", "I", "J", "K", "L", "M",
   "N", "O", "P", "Q", "R", "S", "T", "U", "V", "W", "X", "Y", "Z"}

LowerCase ==
  {"a", "b", "c", "d", "e", "f", "g", "h", "i", "j", "k", "l", "m",
   "n", "o", "p", "q", "r", "s", "t", "u", "v", "w", "x", "y", "z"}

(* \s within a line *)
WhiteSpace == {" "}

startsWith(s, t) == Len(s) >= Len(t) /\ SubSeq(s, 1, Len(t)) = t

includes(s, t) == indexOf(s, t) >= 0

(* The words of SECTION_PATTERNS.headings, which ignores case; Notes? is   *)
(* note, and the colon and the spaces after the word are optional          *)
HeadingWords ==
  { <<"a", "s", "s", "e", "s", "s", "m", "e", "n", "t">>,
    <<"i", "n", "j", "u", "r", "y">>,
    <<"i", "n", "j", "u", "r", "i", "e", "s">>, <<"s", "k", "i", "n">>,
    <<"v", "i", "t", "a", "l", "s">>,
    <<"v", "i", "t", "a", "l", " ", "s", "i", "g", "n", "s">>,
    <<"n", "e", "u", "r", "o">>,
    <<"n", "e", "u", "r", "o", "l", "o", "g", "i", "c", "a", "l">>,
    <<"i", "n", "t", "e", "r", "v", "e", "n", "t", "i", "o", "n">>,
    <<"i", "n", "t", "e", "r", "v", "e", "n", "t", "i", "o", "n", "s">>,
    <<"p", "l", "a", "n">>, <<"n", "o", "t", "e">>,
    <<"c", "o", "m", "m", "e", "n", "t">>,
    <<"f", "i", "n", "d", "i", "n", "g", "s">>,
    <<"o", "b", "s", "e", "r", "v", "a", "t", "i", "o", "n">>,
    <<"o", "b", "s", "e", "r", "v", "a", "t", "i", "o", "n", "s">> }

headings(line) == \E word \in HeadingWords : startsWith(toLowerCase(line), word)

(* /^[-*]\s+/, the bullet character apart *)
bulletLike(line) ==
  Len(line) >= 2 /\ line[1] \in {"-", "*"} /\ line[2] \in WhiteSpace

(* /^\d+[\.)]\s+/ *)
numbered(line) ==
  \E n \in 1..Len(line) :
    /\ \A i \in 1..n : line[i] \in Digits
    /\ Len(line) >= n + 2
    /\ line[n + 1] \in {".", ")"}
    /\ line[n + 2] \in WhiteSpace

(* [A-Z][a-z]+ from position i: the positions after the word it may end at *)
wordEnds(line, i) ==
  IF i > Len(line) \/ line[i] \notin UpperCase THEN {}
  ELSE { j \in (i + 2)..(Len(line) + 1) : \A k \in (i + 1)..(j - 1) : line[k] \in LowerCase }

(* /^[A-Z][a-z]+(?:\s+[A-Z][a-z]+)*:\s*/ *)
RECURSIVE wordsThenColon(_, _)
wordsThenColon(line, i) ==
  \E j \in wordEnds(line, i) :
    \/ j <= Len(line) /\ line[j] = ":"
    \/ \E k \in (j + 1)..Len(line) :
         /\ \A w \in j..(k - 1) : line[w] \in WhiteSpace
         /\ wordsThenColon(line, k)

colonSeparated(line) == wordsThenColon(line, 1)

INJURY_RELEVANT_KEYWORDS ==
  << <<"a", "s", "s", "e", "s", "s", "m", "e", "n", "t">>,
     <<"i", "n", "j", "u", "r", "y">>,
     <<"i", "n", "j", "u", "r", "i", "e", "s">>, <<"s", "k", "i", "n">>,
     <<"v", "i", "t", "a", "l", "s">>,
     <<"v", "i", "t", "a", "l", " ", "s", "i", "g", "n", "s">>,
     <<"n", "e", "u", "r", "o">>,
     <<"n", "e", "u", "r", "o", "l", "o", "g", "i", "c", "a", "l">>,
     <<"i", "n", "t", "e", "r", "v", "e", "n", "t", "i", "o", "n">>,
     <<"i", "n", "t", "e", "r", "v", "e", "n", "t", "i", "o", "n", "s">>,
     <<"f", "i", "n", "d", "i", "n", "g">>,
     <<"f", "i", "n", "d", "i", "n", "g", "s">>,
     <<"o", "b", "s", "e", "r", "v", "a", "t", "i", "o", "n">>,
     <<"o", "b", "s", "e", "r", "v", "a", "t", "i", "o", "n", "s">>,
     <<"p", "o", "s", "t", " ", "f", "a", "l", "l">>,
     <<"a", "f", "t", "e", "r", " ", "f", "a", "l", "l">>,
     <<"f", "o", "u", "n", "d">>, <<"n", "o", "t", "e", "d">>,
     <<"o", "b", "s", "e", "r", "v", "e", "d">>,
     <<"a", "b", "r", "a", "s", "i", "o", "n">>,
     <<"b", "r", "u", "i", "s", "e">>,
     <<"b", "l", "e", "e", "d", "i", "n", "g">>,
     <<"s", "w", "e", "l", "l", "i", "n", "g">>, <<"p", "a", "i", "n">>,
     <<"l", "a", "c", "e", "r", "a", "t", "i", "o", "n">>,
     <<"c", "o", "n", "t", "u", "s", "i", "o", "n">>,
     <<"f", "r", "a", "c", "t", "u", "r", "e">> >>

LESS_RELEVANT_KEYWORDS ==
  << <<"m", "e", "d", "i", "c", "a", "t", "i", "o", "n">>,
     <<"m", "e", "d", "i", "c", "a", "t", "i", "o", "n", " ", "g", "i", "v", "e", "n">>,
     <<"m", "e", "d", "i", "c", "a", "t", "i", "o", "n", "s">>,
     <<"a", "l", "l", "e", "r", "g", "y">>,
     <<"a", "l", "l", "e", "r", "g", "i", "e", "s">>,
     <<"h", "i", "s", "t", "o", "r", "y">>,
     <<"p", "a", "s", "t", " ", "h", "i", "s", "t", "o", "r", "y">>,
     <<"d", "i", "a", "g", "n", "o", "s", "i", "s">>,
     <<"d", "i", "a", "g", "n", "o", "s", "e", "s">>,
     <<"r", "o", "u", "t", "i", "n", "e">>, <<"a", "d", "m", "i", "n">>,
     <<"a", "d", "m", "i", "n", "i", "s", "t", "r", "a", "t", "i", "v", "e">> >>

some(keywords, lineLower) ==
  \E i \in 1..Len(keywords) : includes(lineLower, toLowerCase(keywords[i]))

Options ==
  [ filterLessRelevant : BOOLEAN, mergeAdjacent : BOOLEAN,
    minSegmentLength : {1, 3} ]

(* currentOffset at line i: every path of the loop adds line.length + 1 *)
RECURSIVE currentOffset(_, _)
currentOffset(lines, i) ==
  IF i = 1 THEN 0 ELSE currentOffset(lines, i - 1) + Len(lines[i - 1]) + 1

category(line) ==
  IF headings(line) THEN "heading"
  ELSE IF bulletLike(line) \/ numbered(line) THEN "list_item"
  ELSE IF colonSeparated(line) THEN "labeled"
  ELSE Null

isInjuryRelevant(line) == some(INJURY_RELEVANT_KEYWORDS, toLowerCase(line))

isLessRelevant(line, o) ==
  o.filterLessRelevant /\ some(LESS_RELEVANT_KEYWORDS, toLowerCase(line))

(* The lines the first loop pushes a segment for *)
pushed(line, o) ==
  /\ trim(line) # <<>>
  /\ ~(o.filterLessRelevant /\ isLessRelevant(line, o) /\ ~isInjuryRelevant(line))
  /\ Len(trim(line)) >= o.minSegmentLength

segmentOf(lines, i) ==
  [ text |-> lines[i],
    startOffset |-> currentOffset(lines, i),
    endOffset |-> currentOffset(lines, i) + Len(lines[i]),
    category |-> IF category(lines[i]) # Null THEN category(lines[i])
                 ELSE IF isInjuryRelevant(lines[i]) THEN "relevant" ELSE Null ]

pushedSegments(lines, o) ==
  LET all == [ i \in 1..Len(lines) |-> [ line |-> i, segment |-> segmentOf(lines, i) ] ]
      kept == SelectSeq(all, LAMBDA x : pushed(lines[x.line], o))
  IN  [ k \in 1..Len(kept) |-> kept[k].segment ]

(* The merge loop, current being the segment it holds *)
RECURSIVE mergeLoop(_, _, _)
mergeLoop(rest, merged, current) ==
  IF rest = <<>> THEN Append(merged, current)
  ELSE LET segment == Head(rest)
       IN  IF /\ current.category = segment.category
              /\ current.endOffset = segment.startOffset
           THEN mergeLoop(Tail(rest), merged,
                          [ text |-> current.text \o <<LF>> \o segment.text,
                            startOffset |-> current.startOffset,
                            endOffset |-> segment.endOffset,
                            category |-> current.category ])
           ELSE mergeLoop(Tail(rest), Append(merged, current), segment)

mergeAdjacentSegments(segs) ==
  IF segs = <<>> THEN <<>> ELSE mergeLoop(Tail(segs), <<>>, Head(segs))

recognizeSections(note, o) ==
  IF o.mergeAdjacent
  THEN mergeAdjacentSegments(pushedSegments(split(note), o))
  ELSE pushedSegments(split(note), o)

(* The notes: up to MaxLines lines, empty, blank, short, plain, with a      *)
(* keyword, bulleted, numbered, headed, labelled, or less relevant         *)
LinePool ==
  { <<>>, <<" ">>, <<"a">>, <<"a", "b">>, <<"p", "a", "i", "n">>,
    <<"-", " ", "a">>, <<"1", ".", " ", "a">>, <<"p", "l", "a", "n">>,
    <<"A", "b", ":", " ", "a">>, <<"a", "d", "m", "i", "n">> }

InitSections ==
  /\ \E lines \in SeqsUpTo(LinePool, MaxLines) : noteContent = join(lines)
  /\ options \in Options
  /\ segments = <<>>
  /\ evidence = Evidence(<<>>, <<>>)
  /\ evaluatorConfig = Undefined
  /\ config = Undefined
  /\ result = <<>>
  /\ resultArray = "none"
  /\ prevResult = <<>>
  /\ calls = 0
  /\ NoInvocations
  /\ pipelineResult = Pending
  /\ NoRequest

RecognizeSections ==
  /\ calls = 0
  /\ segments' = recognizeSections(noteContent, options)
  /\ calls' = 1
  /\ UNCHANGED <<noteContent, options>>
  /\ UNCHANGED <<evidence, evaluatorConfig, config, result, resultArray, prevResult,
                 invocations, pipelineResult, unified>>

Next == Evaluate

NextShared ==
  \E caller \in Callers :
    \/ EnterEvaluate(caller)
    \/ StepRule3(caller)
    \/ StepRule4And5(caller)
    \/ StepRule6And7(caller)

NextDefault == EvaluateOmitted \/ RunPipeline

NextUnified == POST \/ ExecuteBlock

NextSections == RecognizeSections

NextRepeat == Evaluate \/ Reevaluate

Spec == Init /\ [][Next]_vars

SpecSuppress == InitSuppress /\ [][Next]_vars

SpecDedup == InitDedup /\ [][Next]_vars

SpecOrder == InitOrder /\ [][Next]_vars

SpecRepeat == InitRepeat /\ [][NextRepeat]_vars

SpecPain == InitPain /\ [][Next]_vars

SpecCertainty == InitCertainty /\ [][Next]_vars

SpecLift == InitLift /\ [][Next]_vars

SpecToggle == InitToggle /\ [][Next]_vars

SpecInformational == InitInformational /\ [][Next]_vars

SpecShared == InitShared /\ [][NextShared]_vars

SpecDefault == InitDefault /\ [][NextDefault]_vars

SpecUnified == InitUnified /\ [][NextUnified]_vars

SpecSections == InitSections /\ [][NextSections]_vars

-----------------------------------------------------------------------------
(* Vocabulary of the properties *)

Called == calls >= 1

InputMentions == Range(evidence.injury_mentions)

Entries == Range(result)

SurvivingMentions == Survivors(evidence, config).validMentions

MaxEndChar ==
  CHOOSE x \in { st.end_char : st \in Range(evidence.no_injury_statements) } :
    \A st \in Range(evidence.no_injury_statements) : x >= st.end_char

ContainsOwnSite(m) ==
  m.body_site # NullStr /\ indexOf(toLowerCase(m.text), toLowerCase(m.body_site)) # -1

(* start_char of the mention the entry of a label was copied from *)
RepresentativeStart(label) ==
  LET map == injuryMap(SurvivingMentions, Len(SurvivingMentions))
      at  == CHOOSE i \in 1..Len(map) : map[i].matched_injury = label
  IN  SurvivingMentions[map[at].rep].start_char

-----------------------------------------------------------------------------
(* C1: every entry a call returns has a matched_injury that is a member of *)
(* ALLOWED_INJURIES, whatever the evidence and the configuration.          *)
C1_OnlyAllowedLabels ==
  Called => \A entry \in Entries : entry.matched_injury \in ALLOWED_INJURIES

(* C2, as stated: with excludeNegated, no entry has the phrase of a mention *)
(* that is negated.                                                         *)
C2_NoPhraseOfNegated ==
  (Called /\ config.excludeNegated) =>
    \A m \in InputMentions : m.is_negated =>
      \A entry \in Entries : entry.phrase # m.text

(* C2, amended: with excludeNegated, an entry has the phrase of a negated    *)
(* mention only when a mention that is not negated has that text and the     *)
(* entry's label.                                                            *)
C2_PhraseOfNegatedOnlyIfShared ==
  (Called /\ config.excludeNegated) =>
    \A m \in InputMentions : m.is_negated =>
      \A entry \in Entries : entry.phrase = m.text =>
        \E other \in InputMentions :
          /\ ~other.is_negated
          /\ other.text = entry.phrase
          /\ other.injury_candidate = entry.matched_injury

C2_Witness ==
  /\ Called /\ config.excludeNegated
  /\ result # <<>>
  /\ \E m \in InputMentions :
       /\ m.is_negated /\ m.injury_candidate # Null
       /\ \A entry \in Entries : entry.phrase # m.text

(* C3: with respectNoInjuryStatements, when there is a no-injury statement   *)
(* and no explicit, non-negated mention starts strictly after the largest    *)
(* end_char of the statements, the call returns the empty list.              *)
C3_NoInjurySuppresses ==
  ( /\ Called /\ config.respectNoInjuryStatements
    /\ evidence.no_injury_statements # <<>>
    /\ ~ \E m \in InputMentions :
           m.certainty = "explicit" /\ ~m.is_negated /\ m.start_char > MaxEndChar )
  => result = <<>>

C3_Witness ==
  /\ Called /\ config.respectNoInjuryStatements
  /\ Len(evidence.no_injury_statements) = 2
  /\ evidence.no_injury_statements[1].end_char > evidence.no_injury_statements[2].end_char
  /\ \E m \in InputMentions :
       /\ m.certainty = "explicit" /\ ~m.is_negated
       /\ m.start_char = MaxEndChar
       /\ m.start_char > evidence.no_injury_statements[2].end_char
  /\ ~ \E m \in InputMentions :
         m.certainty = "explicit" /\ ~m.is_negated /\ m.start_char > MaxEndChar
  /\ result = <<>>

C5_PhraseVerbatim ==
  Called => \A entry \in Entries :
              \E m \in InputMentions :
                m.text = entry.phrase /\ m.injury_candidate = entry.matched_injury

C5_Witness ==
  /\ Called
  /\ \E entry \in Entries : entry.phrase = <<"A", "b">>

(* C6: the returned list is in ascending order of the start_char of the    *)
(* mention each entry was copied from, ties in ascending alphabetical order *)
(* of matched_injury.                                                      *)
C6_SortedByRepresentative ==
  Called => \A i, j \in 1..Len(result) : i < j =>
              LET a == result[i].matched_injury
                  b == result[j].matched_injury
              IN  \/ RepresentativeStart(a) < RepresentativeStart(b)
                  \/ /\ RepresentativeStart(a) = RepresentativeStart(b)
                     /\ Rank(a) < Rank(b)

(* C7: an entry's phrase is never shorter than the text of a surviving *)
(* mention of its label.                                               *)
C7_LongestPhraseKept ==
  Called => \A entry \in Entries : \A m \in Range(SurvivingMentions) :
              m.injury_candidate = entry.matched_injury => Len(entry.phrase) >= Len(m.text)

(* C8: of two surviving mentions of one label with texts of equal length,  *)
(* exactly one of which contains its own body_site, the entry of the label *)
(* has the text of that one, in either order of the two.                   *)
C8_TieBrokenByOwnSite ==
  Called => \A i, j \in 1..Len(SurvivingMentions) :
              LET m == SurvivingMentions[i]
                  o == SurvivingMentions[j]
              IN  ( /\ i # j
                    /\ m.injury_candidate = o.injury_candidate
                    /\ Len(m.text) = Len(o.text)
                    /\ ContainsOwnSite(m) /\ ~ContainsOwnSite(o) )
                  => \E entry \in Entries :
                       entry.matched_injury = m.injury_candidate /\ entry.phrase = m.text

EmptyEvidence ==
  /\ evidence.injury_mentions = <<>>
  /\ evidence.negations = <<>>
  /\ evidence.no_injury_statements = <<>>
  /\ evidence.timing_markers = <<>>
  /\ evidence.body_sites = <<>>

C11_TotalOnWellShaped ==
  Called => /\ resultArray \in {"literal", "finalInjuries"}
            /\ EmptyEvidence => result = <<>>

C11_Witness ==
  /\ Called /\ EmptyEvidence
  /\ config.respectNoInjuryStatements
  /\ resultArray = "finalInjuries"
  /\ result = <<>>

(* C12: every flag of DEFAULT_CONFIG is true; a call that leaves the        *)
(* configuration out evaluates with all five flags true and returns a list  *)
(* the call with all flags true returns; runPipeline evaluates with each     *)
(* flag as config.evaluatorConfig has it when present there, and true when   *)
(* not.                                                                      *)
C12_FlagsDefaultToTrue ==
  /\ \A flag \in Flags : DEFAULT_CONFIG[flag]
  /\ Called =>
       /\ \A flag \in Flags :
            config[flag] = IF flag \in DOMAIN orEmptyObject(evaluatorConfig)
                           THEN evaluatorConfig[flag]
                           ELSE TRUE
       /\ evaluatorConfig = Undefined =>
            result \in evaluateEvidence(evidence, [flag \in Flags |-> TRUE])

C12_Witness ==
  /\ Called
  /\ evaluatorConfig # Undefined
  /\ DOMAIN evaluatorConfig = {"excludeNegated"}
  /\ ~evaluatorConfig.excludeNegated
  /\ ~config.excludeNegated /\ config.strictPainEvaluation
  /\ result # <<>>
  /\ \E m \in InputMentions : m.is_negated

(* The pain mentions Rule 5 receives *)
PainMentionsEntering ==
  { m \in Range(enteringRule5(evidence, config)) : m.injury_candidate = "pain" }

PostFallAndExplicit(m) ==
  /\ m.temporal_relation_to_fall \in {"post_fall", "during_fall"}
  /\ m.certainty = "explicit"

NonEmptySite(m) == m.body_site # NullStr /\ m.body_site # <<>>

NonBlankSite(m) == m.body_site # NullStr /\ trim(m.body_site) # <<>>

(* C13, as stated: with strictPainEvaluation, a pain mention that survived   *)
(* steps 1-4 is kept if and only if its body_site is non-empty or it is      *)
(* post_fall or during_fall and explicit, and the output has a pain entry    *)
(* only if some such mention satisfies that.                                 *)
C13_PainKeptIffSiteNonEmpty ==
  (Called /\ config.strictPainEvaluation /\ resultArray = "finalInjuries") =>
    /\ \A m \in PainMentionsEntering :
         (m \in Range(SurvivingMentions)) <=> (NonEmptySite(m) \/ PostFallAndExplicit(m))
    /\ (\E entry \in Entries : entry.matched_injury = "pain") =>
         \E m \in PainMentionsEntering : NonEmptySite(m) \/ PostFallAndExplicit(m)

(* C13, amended: the body_site counts when it has a character that is not *)
(* whitespace.                                                            *)
C13_PainKeptIffSiteNonBlank ==
  (Called /\ config.strictPainEvaluation /\ resultArray = "finalInjuries") =>
    /\ \A m \in PainMentionsEntering :
         (m \in Range(SurvivingMentions)) <=> (NonBlankSite(m) \/ PostFallAndExplicit(m))
    /\ (\E entry \in Entries : entry.matched_injury = "pain") <=>
         \E m \in PainMentionsEntering : NonBlankSite(m) \/ PostFallAndExplicit(m)

C13_Witness ==
  /\ Called /\ config.strictPainEvaluation
  /\ resultArray = "finalInjuries"
  /\ \E m, o \in PainMentionsEntering :
       /\ m.body_site = <<" ">> /\ ~PostFallAndExplicit(m)
       /\ o.body_site = <<"a">> /\ ~PostFallAndExplicit(o)
  /\ Len(SurvivingMentions) = 1
  /\ \E entry \in Entries : entry.matched_injury = "pain"

(* The mentions that survived steps 1-3 *)
SurvivorsOfStep3 == Range(enteringRule4(evidence, config))

(* C14: with preferExplicit, when a mention that survived steps 1-3 is       *)
(* explicit, every entry has the text and the label of an explicit survivor  *)
(* and every mention that reaches deduplication is explicit; when none is    *)
(* explicit, the survivors all pass to step 5, and each of their labels      *)
(* other than pain has an entry.                                             *)
C14_ExplicitReplacesWeaker ==
  (Called /\ config.preferExplicit) =>
    IF \E m \in SurvivorsOfStep3 : m.certainty = "explicit"
    THEN /\ \A entry \in Entries :
              \E m \in SurvivorsOfStep3 :
                /\ m.certainty = "explicit"
                /\ m.text = entry.phrase
                /\ m.injury_candidate = entry.matched_injury
         /\ \A m \in Range(SurvivingMentions) : m.certainty = "explicit"
    ELSE /\ enteringRule5(evidence, config) = enteringRule4(evidence, config)
         /\ \A m \in SurvivorsOfStep3 :
              m.injury_candidate # "pain" =>
                \E entry \in Entries : entry.matched_injury = m.injury_candidate

C14_Witness ==
  /\ Called /\ config.preferExplicit
  /\ \E m, o \in SurvivorsOfStep3 :
       /\ m.certainty = "explicit" /\ m.injury_candidate = "pain"
       /\ o.certainty = "implied" /\ o.injury_candidate = "bruise"
  /\ config.strictPainEvaluation
  /\ result = <<>>

(* An explicit, non-negated mention that starts after every no-injury *)
(* statement ends                                                     *)
AfterStatements(m) ==
  /\ m.certainty = "explicit"
  /\ ~m.is_negated
  /\ m.start_char > MaxEndChar

(* C15: with respectNoInjuryStatements and a no-injury statement, a mention  *)
(* with a label that is neither null nor pain, explicit, not negated, that   *)
(* starts strictly after the largest end_char of the statements has an entry *)
(* of its label in the output.                                               *)
C15_LaterEvidenceLifts ==
  (Called /\ config.respectNoInjuryStatements /\ evidence.no_injury_statements # <<>>) =>
    \A m \in InputMentions :
      (m.injury_candidate \notin {Null, "pain"} /\ AfterStatements(m)) =>
        \E entry \in Entries : entry.matched_injury = m.injury_candidate

C15_Witness ==
  /\ Called /\ config.respectNoInjuryStatements
  /\ Len(evidence.no_injury_statements) = 2
  /\ evidence.no_injury_statements[1].end_char > evidence.no_injury_statements[2].end_char
  /\ config.strictPainEvaluation
  /\ \E m, o \in InputMentions :
       /\ m.injury_candidate = "bruise" /\ AfterStatements(m)
       /\ o.injury_candidate = "pain" /\ AfterStatements(o)
  /\ Len(result) = 1
  /\ result[1].matched_injury = "bruise"

(* C16: with respectNoInjuryStatements and a no-injury statement, every entry *)
(* has the text and the label of a mention that is explicit, not negated and  *)
(* starts strictly after the largest end_char of the statements, and every    *)
(* mention that reaches the later steps is such a mention.                    *)
C16_OnlyLaterEvidenceContributes ==
  (Called /\ config.respectNoInjuryStatements /\ evidence.no_injury_statements # <<>>) =>
    /\ \A entry \in Entries :
         \E m \in InputMentions :
           /\ AfterStatements(m)
           /\ m.text = entry.phrase
           /\ m.injury_candidate = entry.matched_injury
    /\ \A m \in SurvivorsOfStep3 : AfterStatements(m)

C16_Witness ==
  /\ Called /\ config.respectNoInjuryStatements
  /\ Len(evidence.no_injury_statements) = 2
  /\ ~config.excludeNegated
  /\ \E m, o \in InputMentions :
       /\ AfterStatements(m)
       /\ o.is_negated /\ o.certainty = "explicit" /\ o.start_char = MaxEndChar
  /\ Len(evidence.injury_mentions) = 2
  /\ Len(SurvivingMentions) = 1
  /\ Len(result) = 1

CorrespondsToNonNegated(entry) ==
  \E m \in InputMentions :
    /\ ~m.is_negated
    /\ m.text = entry.phrase
    /\ m.injury_candidate = entry.matched_injury

(* C18, as stated: under every configuration, every entry has the text and *)
(* the label of an input mention that is not negated.                      *)
C18_NegatedNeverReachesOutput ==
  Called => \A entry \in Entries : CorrespondsToNonNegated(entry)

(* C18, amended: that holds with excludeNegated, and with                  *)
(* respectNoInjuryStatements when there is a no-injury statement.          *)
C18_NegatedExcludedWhenFiltered ==
  ( /\ Called
    /\ \/ config.excludeNegated
       \/ config.respectNoInjuryStatements /\ evidence.no_injury_statements # <<>> )
  => \A entry \in Entries : CorrespondsToNonNegated(entry)

C18_Witness ==
  /\ Called
  /\ ~config.excludeNegated
  /\ config.respectNoInjuryStatements
  /\ Len(evidence.no_injury_statements) = 1
  /\ Len(evidence.injury_mentions) = 2
  /\ \A i \in 1..2 :
       /\ evidence.injury_mentions[i].certainty = "explicit"
       /\ evidence.injury_mentions[i].start_char > MaxEndChar
  /\ evidence.injury_mentions[1].is_negated
  /\ ~evidence.injury_mentions[2].is_negated
  /\ Len(SurvivingMentions) = 1
  /\ Len(result) = 1

(* C19: the lists a call may return are the same with requireExactMatch on  *)
(* and off, whatever the other four flags, and in both cases no entry has a *)
(* label outside ALLOWED_INJURIES.                                          *)
C19_ExactMatchInertAndFiltered ==
  Called =>
    /\ evaluateEvidence(evidence, [config EXCEPT !.requireExactMatch = TRUE])
         = evaluateEvidence(evidence, [config EXCEPT !.requireExactMatch = FALSE])
    /\ \A m \in InputMentions :
         m.injury_candidate \notin ALLOWED_INJURIES =>
           \A entry \in Entries : entry.matched_injury # m.injury_candidate

(* The entries of a list whose label is not pain, in the order of the list *)
WithoutPain(list) == SelectSeq(list, LAMBDA entry : entry.matched_injury # "pain")

(* The lists a call with strictPainEvaluation the other way may return *)
ToggledOutcomes ==
  evaluateEvidence(evidence,
                   [config EXCEPT !.strictPainEvaluation = ~config.strictPainEvaluation])

(* C20: the entries whose label is not pain, in their order, are the same *)
(* in the list a call returns and in the list the call with               *)
(* strictPainEvaluation the other way returns, whatever the other flags.  *)
C20_StrictPainTouchesOnlyPain ==
  Called => \A other \in ToggledOutcomes : WithoutPain(other) = WithoutPain(result)

C20_Witness ==
  /\ Called /\ config.strictPainEvaluation
  /\ Len(result) = 2
  /\ result[1].matched_injury = "cut"
  /\ result[2].matched_injury = "bruise"
  /\ \E other \in ToggledOutcomes :
       /\ Len(other) = 3
       /\ other[2].matched_injury = "pain"

(* The evidence with its informational parts blanked: the fields the claim *)
(* lists are set to one fixed value, the others are kept                   *)
WithoutInformation(e) ==
  [ injury_mentions |->
      [ i \in 1..Len(e.injury_mentions) |->
          [ e.injury_mentions[i] EXCEPT !.negation_text = NullStr, !.end_char = 0 ] ],
    negations |-> <<>>,
    no_injury_statements |->
      [ i \in 1..Len(e.no_injury_statements) |->
          [ e.no_injury_statements[i] EXCEPT !.text = <<>>, !.start_char = 0 ] ],
    timing_markers |-> <<>>,
    body_sites |-> <<>>,
    metadata |-> Metadata ]

(* C21: the list a call returns is the list the call returns on the evidence *)
(* with other negations, timing_markers, body_sites and metadata, other      *)
(* negation_text and end_char of its mentions and other text and start_char  *)
(* of its no-injury statements.                                              *)
C21_InformationalNotConsumed ==
  Called => evaluateEvidence(WithoutInformation(evidence), config) = {result}

C21_Witness ==
  /\ Called /\ config.excludeNegated /\ config.respectNoInjuryStatements
  /\ evidence.negations # <<>>
  /\ Len(evidence.no_injury_statements) = 2
  /\ evidence.no_injury_statements[1].text # evidence.no_injury_statements[2].text
  /\ Len(evidence.injury_mentions) = 2
  /\ evidence.injury_mentions[1].is_negated
  /\ evidence.injury_mentions[1].negation_text = NullStr
  /\ ~evidence.injury_mentions[2].is_negated
  /\ evidence.injury_mentions[2].negation_text # NullStr
  /\ evidence.injury_mentions[2].end_char = 5
  /\ Len(result) = 1

(* C22: under every interleaving of the invocations of several callers on  *)
(* the one evidence and the one config, whose steps write neither of them, *)
(* the list a caller is returned is a list the call made alone returns.    *)
C22_SharedArgumentsIsolatedResults ==
  \A caller \in Callers :
    pc[caller] = "done" => results[caller] \in evaluateEvidence(evidence, config)

C22_Witness ==
  /\ \E caller, other \in Callers :
       /\ pc[caller] = "done"
       /\ results[caller] # <<>>
       /\ pc[other] = "rule3"
       /\ locals[other] # locals[caller]
  /\ config.preferExplicit

(* C23: with excludeNegated, every entry has the text and the label of an   *)
(* input mention that is not negated, and a label whose mentions are all    *)
(* negated has no entry.                                                    *)
C23_NegatedExcluded ==
  (Called /\ config.excludeNegated) =>
    /\ \A entry \in Entries : CorrespondsToNonNegated(entry)
    /\ \A m \in InputMentions :
         (\A o \in InputMentions : o.injury_candidate = m.injury_candidate => o.is_negated)
         => \A entry \in Entries : entry.matched_injury # m.injury_candidate

C23_Witness ==
  /\ Called /\ config.excludeNegated
  /\ Len(evidence.injury_mentions) = 2
  /\ evidence.injury_mentions[1].injury_candidate = "bruise"
  /\ evidence.injury_mentions[1].is_negated
  /\ evidence.injury_mentions[1].certainty = "explicit"
  /\ evidence.injury_mentions[2].injury_candidate = "shaking"
  /\ ~evidence.injury_mentions[2].is_negated
  /\ evidence.injury_mentions[2].certainty = "implied"
  /\ Len(result) = 1
  /\ result[1].matched_injury = "shaking"

(* C24: the certainty preference is decided before the pain rule: with      *)
(* preferExplicit and strictPainEvaluation, when the explicit survivors of  *)
(* steps 1-3 are all pain mentions that the pain rule drops, the implied    *)
(* and unclear mentions are discarded all the same and the output is empty. *)
C24_PreferenceBeforePainRule ==
  (Called /\ config.preferExplicit /\ config.strictPainEvaluation) =>
    LET explicit == { m \in SurvivorsOfStep3 : m.certainty = "explicit" }
    IN  ( /\ explicit # {}
          /\ \A m \in explicit :
               /\ m.injury_candidate = "pain"
               /\ ~(NonBlankSite(m) \/ PostFallAndExplicit(m)) )
        => result = <<>>

C24_Witness ==
  /\ Called /\ config.preferExplicit /\ config.strictPainEvaluation
  /\ resultArray = "finalInjuries"
  /\ Len(evidence.injury_mentions) = 2
  /\ evidence.injury_mentions[1].injury_candidate = "bruise"
  /\ evidence.injury_mentions[1].certainty = "unclear"
  /\ ~evidence.injury_mentions[1].is_negated
  /\ evidence.injury_mentions[2].injury_candidate = "pain"
  /\ evidence.injury_mentions[2].certainty = "explicit"
  /\ ~evidence.injury_mentions[2].is_negated
  /\ result = <<>>

(* C25: with respectNoInjuryStatements off, the list a call returns is the *)
(* list the call returns on the same evidence with no_injury_statements    *)
(* empty, whatever the other flags.                                        *)
C25_StatementsInertWhenNotRespected ==
  (Called /\ ~config.respectNoInjuryStatements) =>
    evaluateEvidence([evidence EXCEPT !.no_injury_statements = <<>>], config) = {result}

C25_Witness ==
  /\ Called /\ ~config.respectNoInjuryStatements
  /\ Len(evidence.no_injury_statements) = 2
  /\ evidence.injury_mentions # <<>>
  /\ \A m \in InputMentions : ~m.is_negated /\ m.start_char <= MaxEndChar
  /\ result # <<>>

(* C26: with respectNoInjuryStatements and a no-injury statement, the list *)
(* a call returns is the list the call returns with excludeNegated and     *)
(* preferExplicit set any other way.                                       *)
C26_SuppressionSubsumesNegationAndCertainty ==
  (Called /\ config.respectNoInjuryStatements /\ evidence.no_injury_statements # <<>>) =>
    \A negated, explicit \in BOOLEAN :
      evaluateEvidence(evidence, [config EXCEPT !.excludeNegated = negated,
                                                !.preferExplicit = explicit])
        = {result}

C26_Witness ==
  /\ Called /\ config.respectNoInjuryStatements
  /\ ~config.excludeNegated /\ ~config.preferExplicit
  /\ evidence.no_injury_statements # <<>>
  /\ Len(evidence.injury_mentions) = 2
  /\ \A i \in 1..2 :
       /\ ~evidence.injury_mentions[i].is_negated
       /\ evidence.injury_mentions[i].start_char > MaxEndChar
  /\ evidence.injury_mentions[1].certainty = "implied"
  /\ evidence.injury_mentions[2].certainty = "explicit"
  /\ Len(SurvivingMentions) = 1
  /\ Len(result) = 1

(* The configuration runPipeline hands the evaluator *)
MergedConfig == spread(DEFAULT_CONFIG, orEmptyObject(evaluatorConfig))

(* C27: the promise of runPipeline is never rejected; when it is fulfilled   *)
(* with an error, finalInjuries is empty and layer1Evidence is null; and the *)
(* error is null exactly when the evaluator was called on the parsed         *)
(* evidence with DEFAULT_CONFIG merged with config.evaluatorConfig, did not  *)
(* throw, and finalInjuries is the list it returned.                         *)
C27_PipelineNeverRejects ==
  /\ pipelineResult.promise # "rejected"
  /\ pipelineResult.promise = "fulfilled" =>
       /\ pipelineResult.error # Null =>
            /\ pipelineResult.finalInjuries = <<>>
            /\ pipelineResult.layer1Evidence = NullEvidence
       /\ pipelineResult.error = Null <=>
            /\ Called
            /\ config = MergedConfig
            /\ resultArray \in {"literal", "finalInjuries"}
            /\ pipelineResult.finalInjuries \in evaluateEvidence(evidence, MergedConfig)
            /\ pipelineResult.finalInjuries = result
            /\ pipelineResult.layer1Evidence = evidence

C27_Witness ==
  /\ pipelineResult.promise = "fulfilled"
  /\ evidence = Misshapen
  /\ Called
  /\ resultArray = "TypeError"
  /\ pipelineResult.error = "Cannot read properties of undefined"
  /\ pipelineResult.finalInjuries = <<>>
  /\ pipelineResult.layer1Evidence = NullEvidence

-----------------------------------------------------------------------------
(* The unified pipeline route *)

(* The block of a result threw: its result carries the error message *)
CarriesError(blockResult) == "error" \in DOMAIN blockResult

(* The results of the blocks that did not throw *)
Succeeded == SelectSeq(blockResults, LAMBDA r : ~CarriesError(r))

(* C28: in the unified pipeline route the blocks execute in list order,    *)
(* each receiving the previous block's output as its input and the first   *)
(* {noteContent: inputNote}; execution stops at the first block whose      *)
(* result carries an error, so that this result is the last element of     *)
(* results and no later block is executed; executedBlocks <= totalBlocks,  *)
(* and finalOutput is the output of the last block that succeeded.         *)
C28_StopsAtFirstError ==
  /\ Len(blockResults) <= Len(request.blocks)
  /\ \A i \in 1..Len(blockResults) :
       /\ blockResults[i].blockId = request.blocks[i].id
       /\ blockResults[i].blockType = request.blocks[i].type
       /\ blockResults[i].input =
            IF i = 1 THEN [ noteContent |-> request.inputNote ]
            ELSE blockResults[i - 1].output
       /\ CarriesError(blockResults[i]) => i = Len(blockResults)
  /\ response.status = 200 =>
       /\ response.results = blockResults
       /\ response.summary.totalBlocks = Len(request.blocks)
       /\ response.summary.executedBlocks = Len(blockResults)
       /\ response.summary.executedBlocks <= response.summary.totalBlocks
       /\ \/ Len(blockResults) = Len(request.blocks)
          \/ CarriesError(blockResults[Len(blockResults)])
       /\ Succeeded # <<>> =>
            response.summary.finalOutput = Succeeded[Len(Succeeded)].output

-----------------------------------------------------------------------------
(* recognizeSections *)

(* The segments of the kept lines of the note, in the order of the note *)
KeptLines == pushedSegments(split(noteContent), options)

(* The kept lines k and k + 1 are consecutive lines of the note (one       *)
(* newline between them) and have the same category                       *)
AdjacentSameCategory(k) ==
  /\ KeptLines[k + 1].startOffset = KeptLines[k].endOffset + 1
  /\ KeptLines[k + 1].category = KeptLines[k].category

(* No kept line before k or after k + 1 continues the run of the two *)
RunOfTwo(k) ==
  /\ k > 1 => ~AdjacentSameCategory(k - 1)
  /\ k + 2 <= Len(KeptLines) => ~AdjacentSameCategory(k + 1)

(* C29: with mergeAdjacent = true, two consecutive kept lines of the note  *)
(* that have the same category are returned as a single segment: its text  *)
(* is the two lines joined by a newline and its span runs from the first   *)
(* line's startOffset to the second line's endOffset (a longer run of such *)
(* lines is returned as one segment that contains the two).                *)
C29_AdjacentSameCategoryMerged ==
  (Called /\ options.mergeAdjacent) =>
    \A k \in 1..(Len(KeptLines) - 1) :
      AdjacentSameCategory(k) =>
        \E i \in 1..Len(segments) :
          /\ segments[i].category = KeptLines[k].category
          /\ segments[i].startOffset <= KeptLines[k].startOffset
          /\ segments[i].endOffset >= KeptLines[k + 1].endOffset
          /\ includes(segments[i].text,
                      KeptLines[k].text \o <<LF>> \o KeptLines[k + 1].text)
          /\ RunOfTwo(k) =>
               /\ segments[i].text =
                    KeptLines[k].text \o <<LF>> \o KeptLines[k + 1].text
               /\ segments[i].startOffset = KeptLines[k].startOffset
               /\ segments[i].endOffset = KeptLines[k + 1].endOffset

=============================================================================
